---- MODULE Spec2Model ----
(***************************************************************************)
(* validate_rooted_hypershell.py: a static completeness checker.  It       *)
(* changes into a fixed root directory, runs seven component validators    *)
(* over eight expected artifacts, prints a report and exits 0 or 1.        *)
(*                                                                         *)
(* Texts are sequences of one-character strings.  Python's `in` test is    *)
(* the operator Contains, re.search is the operator re_search over the     *)
(* compiled form of the pattern source (literal, `.`, `.*`, `\x`).         *)
(***************************************************************************)
EXTENDS Integers, Sequences, FiniteSets, TLC

VARIABLES rootExists, fs, pc, results, out, evald, calls, exitCode,
          mtext, mname, mres

mainVars == <<rootExists, fs, pc, results, out, evald, calls, exitCode>>
matchVars == <<mtext, mname, mres>>
vars == <<rootExists, fs, pc, results, out, evald, calls, exitCode,
          mtext, mname, mres>>

(***************************************************************************)
(* Characters of every string literal the model reads as text.             *)
(***************************************************************************)
StrTab ==
     ("function " :> <<"f", "u", "n", "c", "t", "i", "o", "n", " ">>) @@
     ("function.*" :> <<"f", "u", "n", "c", "t", "i", "o", "n", ".", "*">>) @@
     ("local function " :> <<"l", "o", "c", "a", "l", " ", "f", "u", "n", "c", "t", "i", "o", "n", " ">>) @@
     ("function.*:" :> <<"f", "u", "n", "c", "t", "i", "o", "n", ".", "*", ":">>) @@
     (" = function" :> <<" ", "=", " ", "f", "u", "n", "c", "t", "i", "o", "n">>) @@
     ("function.*\\." :> <<"f", "u", "n", "c", "t", "i", "o", "n", ".", "*", "\\", ".">>) @@
     ("local RootedTree = {}" :> <<"l", "o", "c", "a", "l", " ", "R", "o", "o", "t", "e", "d", "T", "r", "e", "e", " ", "=", " ", "{", "}">>) @@
     ("function RootedTree.new(label)" :> <<"f", "u", "n", "c", "t", "i", "o", "n", " ", "R", "o", "o", "t", "e", "d", "T", "r", "e", "e", ".", "n", "e", "w", "(", "l", "a", "b", "e", "l", ")">>) @@
     ("function RootedTree:addChild(c)" :> <<"f", "u", "n", "c", "t", "i", "o", "n", " ", "R", "o", "o", "t", "e", "d", "T", "r", "e", "e", ":", "a", "d", "d", "C", "h", "i", "l", "d", "(", "c", ")">>) @@
     ("function RootedTree:getNodesAtDepth(d)" :> <<"f", "u", "n", "c", "t", "i", "o", "n", " ", "R", "o", "o", "t", "e", "d", "T", "r", "e", "e", ":", "g", "e", "t", "N", "o", "d", "e", "s", "A", "t", "D", "e", "p", "t", "h", "(", "d", ")">>) @@
     ("function RootedTree:traverseDFS(f)" :> <<"f", "u", "n", "c", "t", "i", "o", "n", " ", "R", "o", "o", "t", "e", "d", "T", "r", "e", "e", ":", "t", "r", "a", "v", "e", "r", "s", "e", "D", "F", "S", "(", "f", ")">>) @@
     ("function RootedTree:traverseBFS(f)" :> <<"f", "u", "n", "c", "t", "i", "o", "n", " ", "R", "o", "o", "t", "e", "d", "T", "r", "e", "e", ":", "t", "r", "a", "v", "e", "r", "s", "e", "B", "F", "S", "(", "f", ")">>) @@
     ("function RootedTree:getLeaves()" :> <<"f", "u", "n", "c", "t", "i", "o", "n", " ", "R", "o", "o", "t", "e", "d", "T", "r", "e", "e", ":", "g", "e", "t", "L", "e", "a", "v", "e", "s", "(", ")">>) @@
     ("function RootedTree.countRootedTrees(n)" :> <<"f", "u", "n", "c", "t", "i", "o", "n", " ", "R", "o", "o", "t", "e", "d", "T", "r", "e", "e", ".", "c", "o", "u", "n", "t", "R", "o", "o", "t", "e", "d", "T", "r", "e", "e", "s", "(", "n", ")">>) @@
     ("function RootedTree.getA000081Sequence(n)" :> <<"f", "u", "n", "c", "t", "i", "o", "n", " ", "R", "o", "o", "t", "e", "d", "T", "r", "e", "e", ".", "g", "e", "t", "A", "0", "0", "0", "0", "8", "1", "S", "e", "q", "u", "e", "n", "c", "e", "(", "n", ")">>) @@
     ("function RootedTree_new(label)" :> <<"f", "u", "n", "c", "t", "i", "o", "n", " ", "R", "o", "o", "t", "e", "d", "T", "r", "e", "e", "_", "n", "e", "w", "(", "l", "a", "b", "e", "l", ")">>) @@
     ("local Hypershell = {}" :> <<"l", "o", "c", "a", "l", " ", "H", "y", "p", "e", "r", "s", "h", "e", "l", "l", " ", "=", " ", "{", "}">>) @@
     ("function Hypershell.new(tree)" :> <<"f", "u", "n", "c", "t", "i", "o", "n", " ", "H", "y", "p", "e", "r", "s", "h", "e", "l", "l", ".", "n", "e", "w", "(", "t", "r", "e", "e", ")">>) @@
     ("function Hypershell:buildShells()" :> <<"f", "u", "n", "c", "t", "i", "o", "n", " ", "H", "y", "p", "e", "r", "s", "h", "e", "l", "l", ":", "b", "u", "i", "l", "d", "S", "h", "e", "l", "l", "s", "(", ")">>) @@
     ("function Hypershell:getShell(d)" :> <<"f", "u", "n", "c", "t", "i", "o", "n", " ", "H", "y", "p", "e", "r", "s", "h", "e", "l", "l", ":", "g", "e", "t", "S", "h", "e", "l", "l", "(", "d", ")">>) @@
     ("function Hypershell:getNodeDepth(n)" :> <<"f", "u", "n", "c", "t", "i", "o", "n", " ", "H", "y", "p", "e", "r", "s", "h", "e", "l", "l", ":", "g", "e", "t", "N", "o", "d", "e", "D", "e", "p", "t", "h", "(", "n", ")">>) @@
     ("function Hypershell:propagateOutward(v)" :> <<"f", "u", "n", "c", "t", "i", "o", "n", " ", "H", "y", "p", "e", "r", "s", "h", "e", "l", "l", ":", "p", "r", "o", "p", "a", "g", "a", "t", "e", "O", "u", "t", "w", "a", "r", "d", "(", "v", ")">>) @@
     ("function Hypershell:propagateInward(v)" :> <<"f", "u", "n", "c", "t", "i", "o", "n", " ", "H", "y", "p", "e", "r", "s", "h", "e", "l", "l", ":", "p", "r", "o", "p", "a", "g", "a", "t", "e", "I", "n", "w", "a", "r", "d", "(", "v", ")">>) @@
     ("function Hypershell:spreadAttention(s)" :> <<"f", "u", "n", "c", "t", "i", "o", "n", " ", "H", "y", "p", "e", "r", "s", "h", "e", "l", "l", ":", "s", "p", "r", "e", "a", "d", "A", "t", "t", "e", "n", "t", "i", "o", "n", "(", "s", ")">>) @@
     ("function RootedHypershell:updateOutput(input)" :> <<"f", "u", "n", "c", "t", "i", "o", "n", " ", "R", "o", "o", "t", "e", "d", "H", "y", "p", "e", "r", "s", "h", "e", "l", "l", ":", "u", "p", "d", "a", "t", "e", "O", "u", "t", "p", "u", "t", "(", "i", "n", "p", "u", "t", ")">>) @@
     ("function RootedHypershell:updateGradInput(input, g)" :> <<"f", "u", "n", "c", "t", "i", "o", "n", " ", "R", "o", "o", "t", "e", "d", "H", "y", "p", "e", "r", "s", "h", "e", "l", "l", ":", "u", "p", "d", "a", "t", "e", "G", "r", "a", "d", "I", "n", "p", "u", "t", "(", "i", "n", "p", "u", "t", ",", " ", "g", ")">>) @@
     ("function RootedHypershell:buildTreeFromShells()" :> <<"f", "u", "n", "c", "t", "i", "o", "n", " ", "R", "o", "o", "t", "e", "d", "H", "y", "p", "e", "r", "s", "h", "e", "l", "l", ":", "b", "u", "i", "l", "d", "T", "r", "e", "e", "F", "r", "o", "m", "S", "h", "e", "l", "l", "s", "(", ")">>) @@
     ("function RootedHypershell:spreadAttention(s)" :> <<"f", "u", "n", "c", "t", "i", "o", "n", " ", "R", "o", "o", "t", "e", "d", "H", "y", "p", "e", "r", "s", "h", "e", "l", "l", ":", "s", "p", "r", "e", "a", "d", "A", "t", "t", "e", "n", "t", "i", "o", "n", "(", "s", ")">>) @@
     ("function RootedHypershell:hierarchicalInference(q)" :> <<"f", "u", "n", "c", "t", "i", "o", "n", " ", "R", "o", "o", "t", "e", "d", "H", "y", "p", "e", "r", "s", "h", "e", "l", "l", ":", "h", "i", "e", "r", "a", "r", "c", "h", "i", "c", "a", "l", "I", "n", "f", "e", "r", "e", "n", "c", "e", "(", "q", ")">>) @@
     ("function RootedHypershell:getRelevantNodes(t)" :> <<"f", "u", "n", "c", "t", "i", "o", "n", " ", "R", "o", "o", "t", "e", "d", "H", "y", "p", "e", "r", "s", "h", "e", "l", "l", ":", "g", "e", "t", "R", "e", "l", "e", "v", "a", "n", "t", "N", "o", "d", "e", "s", "(", "t", ")">>) @@
     ("local RootedHypershell, parent = torch.class('nn.RootedHypershell', 'nn.Module')" :> <<"l", "o", "c", "a", "l", " ", "R", "o", "o", "t", "e", "d", "H", "y", "p", "e", "r", "s", "h", "e", "l", "l", ",", " ", "p", "a", "r", "e", "n", "t", " ", "=", " ", "t", "o", "r", "c", "h", ".", "c", "l", "a", "s", "s", "(", "'", "n", "n", ".", "R", "o", "o", "t", "e", "d", "H", "y", "p", "e", "r", "s", "h", "e", "l", "l", "'", ",", " ", "'", "n", "n", ".", "M", "o", "d", "u", "l", "e", "'", ")">>) @@
     ("local RootedHypershell = {}" :> <<"l", "o", "c", "a", "l", " ", "R", "o", "o", "t", "e", "d", "H", "y", "p", "e", "r", "s", "h", "e", "l", "l", " ", "=", " ", "{", "}">>) @@
     ("torch.class(\"nn.RootedHypershell\", \"nn.Module\")" :> <<"t", "o", "r", "c", "h", ".", "c", "l", "a", "s", "s", "(", "\"", "n", "n", ".", "R", "o", "o", "t", "e", "d", "H", "y", "p", "e", "r", "s", "h", "e", "l", "l", "\"", ",", " ", "\"", "n", "n", ".", "M", "o", "d", "u", "l", "e", "\"", ")">>) @@
     ("torch.class('nn.RootedHypershell', 'nn.Module')" :> <<"t", "o", "r", "c", "h", ".", "c", "l", "a", "s", "s", "(", "'", "n", "n", ".", "R", "o", "o", "t", "e", "d", "H", "y", "p", "e", "r", "s", "h", "e", "l", "l", "'", ",", " ", "'", "n", "n", ".", "M", "o", "d", "u", "l", "e", "'", ")">>) @@
     ("function test.testRootedTreeBasics()" :> <<"f", "u", "n", "c", "t", "i", "o", "n", " ", "t", "e", "s", "t", ".", "t", "e", "s", "t", "R", "o", "o", "t", "e", "d", "T", "r", "e", "e", "B", "a", "s", "i", "c", "s", "(", ")">>) @@
     ("function test.testRootedTreeTraversal()" :> <<"f", "u", "n", "c", "t", "i", "o", "n", " ", "t", "e", "s", "t", ".", "t", "e", "s", "t", "R", "o", "o", "t", "e", "d", "T", "r", "e", "e", "T", "r", "a", "v", "e", "r", "s", "a", "l", "(", ")">>) @@
     ("function test.testA000081Sequence()" :> <<"f", "u", "n", "c", "t", "i", "o", "n", " ", "t", "e", "s", "t", ".", "t", "e", "s", "t", "A", "0", "0", "0", "0", "8", "1", "S", "e", "q", "u", "e", "n", "c", "e", "(", ")">>) @@
     ("function test.testHypershellCreation()" :> <<"f", "u", "n", "c", "t", "i", "o", "n", " ", "t", "e", "s", "t", ".", "t", "e", "s", "t", "H", "y", "p", "e", "r", "s", "h", "e", "l", "l", "C", "r", "e", "a", "t", "i", "o", "n", "(", ")">>) @@
     ("function test.testRootedHypershell()" :> <<"f", "u", "n", "c", "t", "i", "o", "n", " ", "t", "e", "s", "t", ".", "t", "e", "s", "t", "R", "o", "o", "t", "e", "d", "H", "y", "p", "e", "r", "s", "h", "e", "l", "l", "(", ")">>) @@
     ("local tree = RootedTree.new('root')" :> <<"l", "o", "c", "a", "l", " ", "t", "r", "e", "e", " ", "=", " ", "R", "o", "o", "t", "e", "d", "T", "r", "e", "e", ".", "n", "e", "w", "(", "'", "r", "o", "o", "t", "'", ")">>) @@
     ("local shell = Hypershell.new(tree)" :> <<"l", "o", "c", "a", "l", " ", "s", "h", "e", "l", "l", " ", "=", " ", "H", "y", "p", "e", "r", "s", "h", "e", "l", "l", ".", "n", "e", "w", "(", "t", "r", "e", "e", ")">>) @@
     ("local net = nn.RootedHypershell(4)" :> <<"l", "o", "c", "a", "l", " ", "n", "e", "t", " ", "=", " ", "n", "n", ".", "R", "o", "o", "t", "e", "d", "H", "y", "p", "e", "r", "s", "h", "e", "l", "l", "(", "4", ")">>) @@
     ("print(RootedTree.getA000081Sequence(5))" :> <<"p", "r", "i", "n", "t", "(", "R", "o", "o", "t", "e", "d", "T", "r", "e", "e", ".", "g", "e", "t", "A", "0", "0", "0", "0", "8", "1", "S", "e", "q", "u", "e", "n", "c", "e", "(", "5", ")", ")">>) @@
     ("net:spreadAttention(1)" :> <<"n", "e", "t", ":", "s", "p", "r", "e", "a", "d", "A", "t", "t", "e", "n", "t", "i", "o", "n", "(", "1", ")">>) @@
     ("# Rooted Hypershell Architecture" :> <<"#", " ", "R", "o", "o", "t", "e", "d", " ", "H", "y", "p", "e", "r", "s", "h", "e", "l", "l", " ", "A", "r", "c", "h", "i", "t", "e", "c", "t", "u", "r", "e">>) @@
     ("RootedTree enumerates OEIS A000081" :> <<"R", "o", "o", "t", "e", "d", "T", "r", "e", "e", " ", "e", "n", "u", "m", "e", "r", "a", "t", "e", "s", " ", "O", "E", "I", "S", " ", "A", "0", "0", "0", "0", "8", "1">>) @@
     ("Hypershell organizes shells" :> <<"H", "y", "p", "e", "r", "s", "h", "e", "l", "l", " ", "o", "r", "g", "a", "n", "i", "z", "e", "s", " ", "s", "h", "e", "l", "l", "s">>) @@
     ("RootedTree enumerates trees" :> <<"R", "o", "o", "t", "e", "d", "T", "r", "e", "e", " ", "e", "n", "u", "m", "e", "r", "a", "t", "e", "s", " ", "t", "r", "e", "e", "s">>) @@
     ("# nngraph" :> <<"#", " ", "n", "n", "g", "r", "a", "p", "h">>) @@
     ("See the rooted hypershell architecture" :> <<"S", "e", "e", " ", "t", "h", "e", " ", "r", "o", "o", "t", "e", "d", " ", "h", "y", "p", "e", "r", "s", "h", "e", "l", "l", " ", "a", "r", "c", "h", "i", "t", "e", "c", "t", "u", "r", "e">>) @@
     ("require('nngraph.rooted_tree')" :> <<"r", "e", "q", "u", "i", "r", "e", "(", "'", "n", "n", "g", "r", "a", "p", "h", ".", "r", "o", "o", "t", "e", "d", "_", "t", "r", "e", "e", "'", ")">>) @@
     ("require('nngraph.hypershell')" :> <<"r", "e", "q", "u", "i", "r", "e", "(", "'", "n", "n", "g", "r", "a", "p", "h", ".", "h", "y", "p", "e", "r", "s", "h", "e", "l", "l", "'", ")">>) @@
     ("require(\"nngraph.rooted_hypershell\")" :> <<"r", "e", "q", "u", "i", "r", "e", "(", "\"", "n", "n", "g", "r", "a", "p", "h", ".", "r", "o", "o", "t", "e", "d", "_", "h", "y", "p", "e", "r", "s", "h", "e", "l", "l", "\"", ")">>) @@
     ("RootedTree.new" :> <<"R", "o", "o", "t", "e", "d", "T", "r", "e", "e", ".", "n", "e", "w">>) @@
     ("addChild" :> <<"a", "d", "d", "C", "h", "i", "l", "d">>) @@
     ("getNodesAtDepth" :> <<"g", "e", "t", "N", "o", "d", "e", "s", "A", "t", "D", "e", "p", "t", "h">>) @@
     ("traverseDFS" :> <<"t", "r", "a", "v", "e", "r", "s", "e", "D", "F", "S">>) @@
     ("traverseBFS" :> <<"t", "r", "a", "v", "e", "r", "s", "e", "B", "F", "S">>) @@
     ("getLeaves" :> <<"g", "e", "t", "L", "e", "a", "v", "e", "s">>) @@
     ("countRootedTrees" :> <<"c", "o", "u", "n", "t", "R", "o", "o", "t", "e", "d", "T", "r", "e", "e", "s">>) @@
     ("getA000081Sequence" :> <<"g", "e", "t", "A", "0", "0", "0", "0", "8", "1", "S", "e", "q", "u", "e", "n", "c", "e">>) @@
     ("Hypershell.new" :> <<"H", "y", "p", "e", "r", "s", "h", "e", "l", "l", ".", "n", "e", "w">>) @@
     ("buildShells" :> <<"b", "u", "i", "l", "d", "S", "h", "e", "l", "l", "s">>) @@
     ("getShell" :> <<"g", "e", "t", "S", "h", "e", "l", "l">>) @@
     ("getNodeDepth" :> <<"g", "e", "t", "N", "o", "d", "e", "D", "e", "p", "t", "h">>) @@
     ("propagateOutward" :> <<"p", "r", "o", "p", "a", "g", "a", "t", "e", "O", "u", "t", "w", "a", "r", "d">>) @@
     ("propagateInward" :> <<"p", "r", "o", "p", "a", "g", "a", "t", "e", "I", "n", "w", "a", "r", "d">>) @@
     ("spreadAttention" :> <<"s", "p", "r", "e", "a", "d", "A", "t", "t", "e", "n", "t", "i", "o", "n">>) @@
     ("updateOutput" :> <<"u", "p", "d", "a", "t", "e", "O", "u", "t", "p", "u", "t">>) @@
     ("updateGradInput" :> <<"u", "p", "d", "a", "t", "e", "G", "r", "a", "d", "I", "n", "p", "u", "t">>) @@
     ("buildTreeFromShells" :> <<"b", "u", "i", "l", "d", "T", "r", "e", "e", "F", "r", "o", "m", "S", "h", "e", "l", "l", "s">>) @@
     ("hierarchicalInference" :> <<"h", "i", "e", "r", "a", "r", "c", "h", "i", "c", "a", "l", "I", "n", "f", "e", "r", "e", "n", "c", "e">>) @@
     ("getRelevantNodes" :> <<"g", "e", "t", "R", "e", "l", "e", "v", "a", "n", "t", "N", "o", "d", "e", "s">>) @@
     ("testRootedTreeBasics" :> <<"t", "e", "s", "t", "R", "o", "o", "t", "e", "d", "T", "r", "e", "e", "B", "a", "s", "i", "c", "s">>) @@
     ("testRootedTreeTraversal" :> <<"t", "e", "s", "t", "R", "o", "o", "t", "e", "d", "T", "r", "e", "e", "T", "r", "a", "v", "e", "r", "s", "a", "l">>) @@
     ("testA000081Sequence" :> <<"t", "e", "s", "t", "A", "0", "0", "0", "0", "8", "1", "S", "e", "q", "u", "e", "n", "c", "e">>) @@
     ("testHypershellCreation" :> <<"t", "e", "s", "t", "H", "y", "p", "e", "r", "s", "h", "e", "l", "l", "C", "r", "e", "a", "t", "i", "o", "n">>) @@
     ("testRootedHypershell" :> <<"t", "e", "s", "t", "R", "o", "o", "t", "e", "d", "H", "y", "p", "e", "r", "s", "h", "e", "l", "l">>) @@
     ("RootedTree" :> <<"R", "o", "o", "t", "e", "d", "T", "r", "e", "e">>) @@
     ("Hypershell" :> <<"H", "y", "p", "e", "r", "s", "h", "e", "l", "l">>) @@
     ("RootedHypershell" :> <<"R", "o", "o", "t", "e", "d", "H", "y", "p", "e", "r", "s", "h", "e", "l", "l">>) @@
     ("A000081" :> <<"A", "0", "0", "0", "0", "8", "1">>) @@
     ("rooted_tree" :> <<"r", "o", "o", "t", "e", "d", "_", "t", "r", "e", "e">>) @@
     ("hypershell" :> <<"h", "y", "p", "e", "r", "s", "h", "e", "l", "l">>) @@
     ("rooted_hypershell" :> <<"r", "o", "o", "t", "e", "d", "_", "h", "y", "p", "e", "r", "s", "h", "e", "l", "l">>) @@
     ("a000081" :> <<"a", "0", "0", "0", "0", "8", "1">>) @@
     ("Rooted Hypershell" :> <<"R", "o", "o", "t", "e", "d", " ", "H", "y", "p", "e", "r", "s", "h", "e", "l", "l">>) @@
     ("rooted hypershell" :> <<"r", "o", "o", "t", "e", "d", " ", "h", "y", "p", "e", "r", "s", "h", "e", "l", "l">>) @@
     ("local " :> <<"l", "o", "c", "a", "l", " ">>) @@
     (" = {}" :> <<" ", "=", " ", "{", "}">>) @@
     ("torch.class('" :> <<"t", "o", "r", "c", "h", ".", "c", "l", "a", "s", "s", "(", "'">>) @@
     ("'" :> <<"'">>) @@
     ("torch.class(\"nn." :> <<"t", "o", "r", "c", "h", ".", "c", "l", "a", "s", "s", "(", "\"", "n", "n", ".">>) @@
     ("\"" :> <<"\"">>) @@
     ("require('nngraph." :> <<"r", "e", "q", "u", "i", "r", "e", "(", "'", "n", "n", "g", "r", "a", "p", "h", ".">>) @@
     ("')" :> <<"'", ")">>) @@
     ("require(\"nngraph." :> <<"r", "e", "q", "u", "i", "r", "e", "(", "\"", "n", "n", "g", "r", "a", "p", "h", ".">>) @@
     ("\")" :> <<"\"", ")">>) @@
     ("torch.class(" :> <<"t", "o", "r", "c", "h", ".", "c", "l", "a", "s", "s", "(">>) @@
     ("local RootedHypershell" :> <<"l", "o", "c", "a", "l", " ", "R", "o", "o", "t", "e", "d", "H", "y", "p", "e", "r", "s", "h", "e", "l", "l">>) @@
     ("RootedHypershell = {}" :> <<"R", "o", "o", "t", "e", "d", "H", "y", "p", "e", "r", "s", "h", "e", "l", "l", " ", "=", " ", "{", "}">>) @@
     ("new" :> <<"n", "e", "w">>) @@
     ("." :> <<".">>) @@
     ("_" :> <<"_">>) @@
     (":" :> <<":">>) @@
     ("\n" :> <<"\n">>)

Chars(s) == StrTab[s]

RECURSIVE Concat(_)
Concat(ss) == IF ss = <<>> THEN <<>> ELSE Head(ss) \o Concat(Tail(ss))

\* The text of a file holding the given lines: each line ends with a newline.
RECURSIVE JoinLines(_)
JoinLines(ls) ==
    IF ls = <<>> THEN <<>>
    ELSE Chars(Head(ls)) \o <<"\n">> \o JoinLines(Tail(ls))

\* Python: lit in text
Contains(lit, text) ==
    \E j \in 1..(Len(text) - Len(lit) + 1) :
        \A k \in 1..Len(lit) : text[j + k - 1] = lit[k]

(***************************************************************************)
(* re.compile, for the pattern sources this program builds: a backslash    *)
(* makes the next character literal, `.*` is any run of non-newline        *)
(* characters, `.` is one non-newline character, anything else is itself.  *)
(***************************************************************************)
RECURSIVE re_compile(_)
re_compile(p) ==
    IF p = <<>> THEN <<>>
    ELSE IF Head(p) = "\\" /\ Len(p) >= 2
         THEN <<[t |-> "lit", c |-> p[2]]>> \o re_compile(SubSeq(p, 3, Len(p)))
    ELSE IF Head(p) = "." /\ Len(p) >= 2 /\ p[2] = "*"
         THEN <<[t |-> "star", c |-> "."]>> \o re_compile(SubSeq(p, 3, Len(p)))
    ELSE IF Head(p) = "."
         THEN <<[t |-> "any", c |-> "."]>> \o re_compile(Tail(p))
    ELSE <<[t |-> "lit", c |-> Head(p)]>> \o re_compile(Tail(p))

\* Does re[i..] match a prefix of text[j..] ?
RECURSIVE MatchAt(_, _, _, _)
MatchAt(re, i, text, j) ==
    IF i > Len(re) THEN TRUE
    ELSE IF re[i].t = "lit"
         THEN j <= Len(text) /\ text[j] = re[i].c /\ MatchAt(re, i + 1, text, j + 1)
    ELSE IF re[i].t = "any"
         THEN j <= Len(text) /\ text[j] # "\n" /\ MatchAt(re, i + 1, text, j + 1)
    ELSE \/ MatchAt(re, i + 1, text, j)
         \/ j <= Len(text) /\ text[j] # "\n" /\ MatchAt(re, i, text, j + 1)

\* Python: re.search(pattern, content) is not None
re_search(pattern, content) ==
    LET re == re_compile(pattern)
    IN  \E j \in 1..(Len(content) + 1) : MatchAt(re, 1, content, j)

\* check_function_exists, lines 31-38: the six templates with the name put in.
function_patterns(function_name) ==
    << Chars("function ") \o function_name,
       Chars("function.*") \o function_name,
       Chars("local function ") \o function_name,
       Chars("function.*:") \o function_name,
       function_name \o Chars(" = function"),
       Chars("function.*\\.") \o function_name >>

\* check_function_exists, lines 39-41, on the text read from the file.
search_patterns(content, function_name) ==
    \E i \in 1..Len(function_patterns(function_name)) :
        re_search(function_patterns(function_name)[i], content)

(***************************************************************************)
(* The filesystem under the working root.  A path is absent, a regular     *)
(* file that can be read, a regular file that cannot be opened for         *)
(* reading, or a directory.  os.path.exists is true of all but the first;  *)
(* open() succeeds only on the readable regular file.                      *)
(***************************************************************************)
TreePath == "rooted_tree.lua"
ShellPath == "hypershell.lua"
RhPath == "rooted_hypershell.lua"
TestPath == "test/test_rooted_hypershell.lua"
ExamplePath == "examples/rooted_hypershell_example.lua"
DocPath == "doc/ROOTED_HYPERSHELL.md"
ReadmePath == "README.md"
InitPath == "init.lua"

Paths == { TreePath, ShellPath, RhPath, TestPath, ExamplePath, DocPath,
           ReadmePath, InitPath }

Absent == [kind |-> "absent", content |-> <<>>]
Directory == [kind |-> "dir", content |-> <<>>]
File(lines) == [kind |-> "file", content |-> lines]
Unreadable(lines) == [kind |-> "unreadable", content |-> lines]

\* Contents the artifacts are drawn from, as lines of Lua / Markdown.
TreeFull ==
    << "local RootedTree = {}",
       "function RootedTree.new(label)",
       "function RootedTree:addChild(c)",
       "function RootedTree:getNodesAtDepth(d)",
       "function RootedTree:traverseDFS(f)",
       "function RootedTree:traverseBFS(f)",
       "function RootedTree:getLeaves()",
       "function RootedTree.countRootedTrees(n)",
       "function RootedTree.getA000081Sequence(n)" >>
\* no getLeaves
TreeNoLeaves == SubSeq(TreeFull, 1, 6) \o SubSeq(TreeFull, 8, 9)
\* no getA000081Sequence, and so no mention of A000081 at all
TreeNoSequence == SubSeq(TreeFull, 1, 8)
\* the constructor is spelled RootedTree_new: the text has no "RootedTree.new"
TreeUnderscore ==
    << TreeFull[1], "function RootedTree_new(label)" >>
    \o SubSeq(TreeFull, 3, 9)

ShellFull ==
    << "local Hypershell = {}",
       "function Hypershell.new(tree)",
       "function Hypershell:buildShells()",
       "function Hypershell:getShell(d)",
       "function Hypershell:getNodeDepth(n)",
       "function Hypershell:propagateOutward(v)",
       "function Hypershell:propagateInward(v)",
       "function Hypershell:spreadAttention(s)" >>

RhMethods ==
    << "function RootedHypershell:updateOutput(input)",
       "function RootedHypershell:updateGradInput(input, g)",
       "function RootedHypershell:buildTreeFromShells()",
       "function RootedHypershell:spreadAttention(s)",
       "function RootedHypershell:hierarchicalInference(q)",
       "function RootedHypershell:getRelevantNodes(t)" >>
\* torch.class registration bound to a local
RhFull ==
    << "local RootedHypershell, parent = torch.class('nn.RootedHypershell', 'nn.Module')" >>
    \o RhMethods
\* a local table, no torch.class call anywhere
RhLocalOnly == << "local RootedHypershell = {}" >> \o RhMethods
\* double-quoted torch.class registration, no local binding
RhTorchDouble ==
    << "torch.class(\"nn.RootedHypershell\", \"nn.Module\")" >> \o RhMethods
\* single-quoted, namespaced torch.class registration, no local binding
RhTorchSingle ==
    << "torch.class('nn.RootedHypershell', 'nn.Module')" >> \o RhMethods
\* the methods alone
RhNoClass == RhMethods
\* class registered, getRelevantNodes missing
RhNoRelevant == SubSeq(RhFull, 1, 6)

TestFull ==
    << "function test.testRootedTreeBasics()",
       "function test.testRootedTreeTraversal()",
       "function test.testA000081Sequence()",
       "function test.testHypershellCreation()",
       "function test.testRootedHypershell()" >>
TestNoIntegration == SubSeq(TestFull, 1, 4)

ExampleFull ==
    << "local tree = RootedTree.new('root')",
       "local shell = Hypershell.new(tree)",
       "local net = nn.RootedHypershell(4)",
       "print(RootedTree.getA000081Sequence(5))",
       "net:spreadAttention(1)" >>
ExampleNoAttention == SubSeq(ExampleFull, 1, 4)

DocFull ==
    << "# Rooted Hypershell Architecture",
       "RootedTree enumerates OEIS A000081",
       "Hypershell organizes shells" >>
\* README mention present elsewhere, but the document never says A000081
DocNoSequence ==
    << DocFull[1], "RootedTree enumerates trees", DocFull[3] >>

ReadmeFull ==
    << "# nngraph", "See the rooted hypershell architecture" >>
ReadmeNoMention == << "# nngraph" >>

InitFull ==
    << "require('nngraph.rooted_tree')",
       "require('nngraph.hypershell')",
       "require(\"nngraph.rooted_hypershell\")" >>
InitTwo == SubSeq(InitFull, 1, 2)

\* What each path may hold.
Candidates ==
    [p \in Paths |->
       CASE p = TreePath ->
              { Absent, Directory, Unreadable(TreeFull), File(TreeFull),
                File(TreeNoLeaves), File(TreeNoSequence), File(TreeUnderscore) }
         [] p = ShellPath ->
              { Absent, Directory, File(ShellFull), File(SubSeq(ShellFull, 1, 7)) }
         [] p = RhPath ->
              { Absent, File(RhFull), File(RhLocalOnly), File(RhTorchDouble),
                File(RhTorchSingle), File(RhNoClass), File(RhNoRelevant) }
         [] p = TestPath -> { Absent, File(TestFull), File(TestNoIntegration) }
         [] p = ExamplePath ->
              { Absent, Directory, File(ExampleFull), File(ExampleNoAttention) }
         [] p = DocPath -> { Absent, File(DocFull), File(DocNoSequence) }
         [] p = ReadmePath -> { Absent, File(ReadmeFull), File(ReadmeNoMention) }
         [] p = InitPath ->
              { Unreadable(InitFull), File(InitFull), File(InitTwo) } ]

AllContents == UNION { { e.content : e \in Candidates[p] } : p \in Paths }

\* Construct names the validators look for (lines 69-78, 107-115, 142-149, 169-175).
TreeFunctions ==
    << "RootedTree.new", "addChild", "getNodesAtDepth", "traverseDFS",
       "traverseBFS", "getLeaves", "countRootedTrees",
       "getA000081Sequence" >>
ShellFunctions ==
    << "Hypershell.new", "buildShells", "getShell", "getNodeDepth",
       "propagateOutward", "propagateInward", "spreadAttention" >>
RhFunctions ==
    << "updateOutput", "updateGradInput", "buildTreeFromShells",
       "spreadAttention", "hierarchicalInference", "getRelevantNodes" >>
TestFunctions ==
    << "testRootedTreeBasics", "testRootedTreeTraversal",
       "testA000081Sequence", "testHypershellCreation",
       "testRootedHypershell" >>
ExampleChecks ==
    << "RootedTree", "Hypershell", "RootedHypershell", "A000081",
       "spreadAttention" >>
ExampleLabels ==
    << "RootedTree usage", "Hypershell usage", "RootedHypershell usage",
       "A000081 sequence", "Attention spreading" >>
InitModules == << "rooted_tree", "hypershell", "rooted_hypershell" >>

Range(s) == { s[i] : i \in 1..Len(s) }
FunctionNames ==
    Range(TreeFunctions) \cup Range(ShellFunctions) \cup Range(RhFunctions)
    \cup Range(TestFunctions)

\* The search of check_function_exists on each content, worked out once.
FunctionFound ==
    [cn \in AllContents |->
       LET text == JoinLines(cn)
       IN  [n \in FunctionNames |-> search_patterns(text, Chars(n))]]

\* content.find of a literal, worked out once per content
LiteralTexts ==
    { Chars("A000081"), Chars("a000081"), Chars("Hypershell"),
      Chars("RootedTree"), Chars("RootedHypershell"),
      Chars("spreadAttention"),
      Chars("Rooted Hypershell"), Chars("rooted hypershell"),
      Chars("local ") \o Chars("RootedHypershell"),
      Chars("RootedHypershell") \o Chars(" = {}"),
      Chars("torch.class('") \o Chars("RootedHypershell") \o Chars("'"),
      Chars("torch.class(\"nn.") \o Chars("RootedHypershell") \o Chars("\"") }
    \cup { Chars("require('nngraph.") \o Chars(InitModules[i]) \o Chars("')") :
           i \in 1..Len(InitModules) }
    \cup { Chars("require(\"nngraph.") \o Chars(InitModules[i]) \o Chars("\")") :
           i \in 1..Len(InitModules) }
LiteralFound ==
    [cn \in AllContents |->
       LET text == JoinLines(cn)
       IN  [l \in LiteralTexts |-> Contains(l, text)]]

\* os.path.exists(filepath), in the filesystem f
path_exists(f, filepath) == f[filepath].kind # "absent"
\* open(filepath, 'r') and f.read() succeed
can_read(f, filepath) == f[filepath].kind = "file"
\* lit in content, for the content read from filepath
in_content(f, lit, filepath) == LiteralFound[f[filepath].content][lit]

(***************************************************************************)
(* Report lines and the log of evaluated items.                            *)
(***************************************************************************)
Item(c, label, ok) == [c |-> c, label |-> label, ok |-> ok]
ItemLine(it) == [k |-> "item", c |-> it.c, label |-> it.label, ok |-> it.ok]
HeaderLine(c) == [k |-> "header", c |-> c, label |-> "", ok |-> TRUE]
RowLine(c, ok) == [k |-> "row", c |-> c, label |-> "", ok |-> ok]
VerdictLine(ok) == [k |-> "verdict", c |-> "", label |-> "", ok |-> ok]
TextLine(label) == [k |-> "text", c |-> "", label |-> label, ok |-> TRUE]

ItemLines(its) == [i \in 1..Len(its) |-> ItemLine(its[i])]
AllOk(its) == \A i \in 1..Len(its) : its[i].ok

\* What a validator call comes to: its return value ("True", "False", or
\* "raise" when an exception leaves it), the lines it printed and the items
\* it evaluated, in order.
Outcome(ret, lines, items) == [ret |-> ret, out |-> lines, ev |-> items]
PyBool(b) == IF b THEN "True" ELSE "False"

\* check_file_exists: both branches print one line.
check_file_exists(f, filepath) ==
    path_exists(f, filepath)

\* check_function_exists: any exception while opening or reading is swallowed.
check_function_exists(f, filepath, function_name) ==
    IF can_read(f, filepath)
    THEN FunctionFound[f[filepath].content][function_name]
    ELSE FALSE

\* check_class_exists
\* (variant) the bare class name anywhere in the text counts as a definition
check_class_exists_name_anywhere(f, filepath, class_name) ==
    IF can_read(f, filepath)
    THEN in_content(f, Chars(class_name), filepath)
    ELSE FALSE
check_class_exists(f, filepath, class_name) ==
    IF can_read(f, filepath)
    THEN \/ in_content(f, Chars("local ") \o Chars(class_name), filepath)
         \/ in_content(f, Chars(class_name) \o Chars(" = {}"), filepath)
         \/ in_content(f, Chars("torch.class('") \o Chars(class_name) \o Chars("'"), filepath)
         \/ in_content(f, Chars("torch.class(\"nn.") \o Chars(class_name) \o Chars("\""), filepath)
    ELSE FALSE

FileItem(f, c, filepath, description) ==
    Item(c, description, check_file_exists(f, filepath))
FunctionItems(f, c, filepath, names) ==
    [i \in 1..Len(names) |-> Item(c, names[i], check_function_exists(f, filepath, names[i]))]

\* The loop shared by the four validators that look for constructs
\* (lines 80-86, 117-123, 151-157, 177-183).
FunctionLoop(f, c, filepath, names, before_lines, before_items) ==
    LET its == FunctionItems(f, c, filepath, names)
    IN  Outcome(PyBool(AllOk(its)), before_lines \o ItemLines(its), before_items \o its)

\* (variant) the early return of line 67 is missing
validate_rooted_tree_no_return(f) ==
    LET c == "RootedTree"
        e == FileItem(f, c, TreePath, "RootedTree module")
        head == <<HeaderLine(c), ItemLine(e)>>
        loop == FunctionLoop(f, c, TreePath, TreeFunctions, head, <<e>>)
    IN  IF ~can_read(f, TreePath)
        THEN Outcome("raise", loop.out, loop.ev)
        ELSE LET m == Item(c, "A000081 sequence implementation",
                           \/ in_content(f, Chars("A000081"), TreePath)
                           \/ in_content(f, Chars("a000081"), TreePath))
             IN  Outcome(PyBool(e.ok /\ loop.ret = "True" /\ m.ok),
                         Append(loop.out, ItemLine(m)), Append(loop.ev, m))
validate_rooted_tree(f) ==
    LET c == "RootedTree"
        e == FileItem(f, c, TreePath, "RootedTree module")
        head == <<HeaderLine(c), ItemLine(e)>>
    IN  IF ~e.ok THEN Outcome("False", head, <<e>>)
        ELSE LET loop == FunctionLoop(f, c, TreePath, TreeFunctions, head, <<e>>)
             IN  IF ~can_read(f, TreePath)
                 THEN Outcome("raise", loop.out, loop.ev)
                 ELSE LET m == Item(c, "A000081 sequence implementation",
                                    \/ in_content(f, Chars("A000081"), TreePath)
                                    \/ in_content(f, Chars("a000081"), TreePath))
                      IN  Outcome(PyBool(loop.ret = "True" /\ m.ok),
                                  Append(loop.out, ItemLine(m)), Append(loop.ev, m))

validate_hypershell(f) ==
    LET c == "Hypershell"
        e == FileItem(f, c, ShellPath, "Hypershell module")
        head == <<HeaderLine(c), ItemLine(e)>>
    IN  IF ~e.ok THEN Outcome("False", head, <<e>>)
        ELSE FunctionLoop(f, c, ShellPath, ShellFunctions, head, <<e>>)

validate_rooted_hypershell(f) ==
    LET c == "RootedHypershell"
        e == FileItem(f, c, RhPath, "RootedHypershell module")
        head == <<HeaderLine(c), ItemLine(e)>>
    IN  IF ~e.ok THEN Outcome("False", head, <<e>>)
        ELSE LET k == Item(c, "Class: nn.RootedHypershell",
                           check_class_exists(f, RhPath, "RootedHypershell"))
             IN  IF ~k.ok
                 THEN Outcome("False", Append(head, ItemLine(k)), <<e, k>>)
                 ELSE FunctionLoop(f, c, RhPath, RhFunctions,
                                   Append(head, ItemLine(k)), <<e, k>>)

validate_tests(f) ==
    LET c == "Tests"
        e == FileItem(f, c, TestPath, "Test suite")
        head == <<HeaderLine(c), ItemLine(e)>>
    IN  IF ~e.ok THEN Outcome("False", head, <<e>>)
        ELSE FunctionLoop(f, c, TestPath, TestFunctions, head, <<e>>)

validate_examples(f) ==
    LET c == "Examples"
        e == FileItem(f, c, ExamplePath, "Example file")
        head == <<HeaderLine(c), ItemLine(e)>>
    IN  IF ~e.ok THEN Outcome("False", head, <<e>>)
        ELSE IF ~can_read(f, ExamplePath) THEN Outcome("raise", head, <<e>>)
        ELSE LET its == [i \in 1..Len(ExampleChecks) |->
                           Item(c, ExampleLabels[i],
                                in_content(f, Chars(ExampleChecks[i]), ExamplePath))]
             IN  Outcome(PyBool(AllOk(its)), head \o ItemLines(its), <<e>> \o its)

\* The three keyword tests on the architecture document print a line only
\* when they succeed and never touch all_present (lines 227-232).
DocKeywords == << "A000081", "Hypershell", "RootedTree" >>
DocKeywordLabels ==
    << "A000081 documentation present", "Hypershell documentation present",
       "RootedTree documentation present" >>
validate_documentation(f) ==
    LET c == "Documentation"
        d == FileItem(f, c, DocPath, "Architecture documentation")
        head == <<HeaderLine(c), ItemLine(d)>>
        \* lines 224-234
        doc ==
            IF ~d.ok THEN Outcome("False", head, <<d>>)
            ELSE IF ~can_read(f, DocPath) THEN Outcome("raise", head, <<d>>)
            ELSE LET its == [i \in 1..Len(DocKeywords) |->
                               Item(c, DocKeywordLabels[i],
                                    in_content(f, Chars(DocKeywords[i]), DocPath))]
                     shown == SelectSeq(its, LAMBDA it : it.ok)
                 IN  Outcome("True", head \o ItemLines(shown), <<d>> \o its)
    IN  IF doc.ret = "raise" THEN doc
        ELSE \* lines 237-246
             LET r == FileItem(f, c, ReadmePath, "README")
                 lines == Append(doc.out, ItemLine(r))
                 items == Append(doc.ev, r)
             IN  IF ~r.ok THEN Outcome("False", lines, items)
                 ELSE IF ~can_read(f, ReadmePath) THEN Outcome("raise", lines, items)
                 ELSE LET m == Item(c, "README mentions Rooted Hypershell",
                                    \/ in_content(f, Chars("Rooted Hypershell"), ReadmePath)
                                    \/ in_content(f, Chars("rooted hypershell"), ReadmePath))
                      IN  Outcome(PyBool(doc.ret = "True" /\ m.ok),
                                  Append(lines, ItemLine(m)), Append(items, m))

validate_integration(f) ==
    LET c == "Integration"
        e == FileItem(f, c, InitPath, "init.lua")
        head == <<HeaderLine(c), ItemLine(e)>>
    IN  IF ~e.ok THEN Outcome("False", head, <<e>>)
        ELSE IF ~can_read(f, InitPath) THEN Outcome("raise", head, <<e>>)
        ELSE LET its == [i \in 1..Len(InitModules) |->
                           Item(c, InitModules[i],
                                \/ in_content(f, Chars("require('nngraph.") \o Chars(InitModules[i])
                                                \o Chars("')"), InitPath)
                                \/ in_content(f, Chars("require(\"nngraph.") \o Chars(InitModules[i])
                                                \o Chars("\")"), InitPath))]
             IN  Outcome(PyBool(AllOk(its)), head \o ItemLines(its), <<e>> \o its)

(***************************************************************************)
(* main() and the entry point.                                             *)
(***************************************************************************)
Components ==
    << "RootedTree", "Hypershell", "RootedHypershell", "Tests", "Examples",
       "Documentation", "Integration" >>

\* Position after the validator of component c has returned (the dict
\* literal of lines 282-290 evaluates its values top to bottom).
AfterComponent(c) ==
    CASE c = "RootedTree" -> "Hypershell"
      [] c = "Hypershell" -> "RootedHypershell"
      [] c = "RootedHypershell" -> "Tests"
      [] c = "Tests" -> "Examples"
      [] c = "Examples" -> "Documentation"
      [] c = "Documentation" -> "Integration"
      [] c = "Integration" -> "summary"

\* lines 296-301: all_passed after the loop over results.items()
all_passed_any(res) == \E i \in 1..Len(res) : res[i].passed
all_passed(res) == \A i \in 1..Len(res) : res[i].passed

\* lines 292-318: the summary table, the verdict block and the return value
summary_lines(res) ==
    << TextLine("Validation Summary") >>
    \o [i \in 1..Len(res) |-> RowLine(res[i].c, res[i].passed)]
    \o << VerdictLine(all_passed(res)) >>
    \o (IF all_passed(res)
        THEN << TextLine("The rooted hypershell architecture implementation includes:") >>
        ELSE << TextLine("Please review the failed checks above.") >>)
main_return(res) == IF all_passed(res) THEN 0 ELSE 1

\* The exit status the interpreter gives a run ended by an uncaught exception.
UncaughtExit == 1

Init ==
    /\ \/ /\ rootExists = FALSE
          /\ fs = [p \in Paths |-> Absent]
       \/ /\ rootExists = TRUE
          /\ \E tree \in Candidates[TreePath], shell \in Candidates[ShellPath],
                rh \in Candidates[RhPath], test \in Candidates[TestPath],
                ex \in Candidates[ExamplePath], doc \in Candidates[DocPath],
                readme \in Candidates[ReadmePath], init \in Candidates[InitPath] :
                fs = (TreePath :> tree) @@ (ShellPath :> shell) @@ (RhPath :> rh)
                     @@ (TestPath :> test) @@ (ExamplePath :> ex) @@ (DocPath :> doc)
                     @@ (ReadmePath :> readme) @@ (InitPath :> init)
    /\ pc = "start"
    /\ results = <<>>
    /\ out = <<>>
    /\ evald = <<>>
    /\ calls = <<>>
    /\ exitCode = -1
    /\ mtext = <<>>
    /\ mname = "addChild"
    /\ mres = "unset"

\* line 321: os.chdir raises when the root is not there
Chdir ==
    /\ pc = "start"
    /\ IF rootExists
       THEN pc' = "main" /\ exitCode' = exitCode
       ELSE pc' = "crashed" /\ exitCode' = UncaughtExit
    /\ UNCHANGED <<rootExists, fs, results, out, evald, calls>>
    /\ UNCHANGED matchVars

\* lines 278-280
MainBanner ==
    /\ pc = "main"
    /\ out' = Append(out, TextLine("Rooted Hypershell Architecture Validation"))
    /\ pc' = "RootedTree"
    /\ UNCHANGED <<rootExists, fs, results, evald, calls, exitCode>>
    /\ UNCHANGED matchVars

\* One entry of the results dict: the validator of component c runs.
RunValidator(c, r) ==
    /\ pc = c
    /\ calls' = Append(calls, c)
    /\ out' = out \o r.out
    /\ evald' = evald \o r.ev
    /\ IF r.ret = "raise"
       THEN /\ pc' = "crashed"
            /\ exitCode' = UncaughtExit
            /\ results' = results
       ELSE /\ pc' = AfterComponent(c)
            /\ exitCode' = exitCode
            /\ results' = Append(results, [c |-> c, passed |-> r.ret = "True"])
    /\ UNCHANGED <<rootExists, fs>>
    /\ UNCHANGED matchVars

ValidateRootedTree == RunValidator("RootedTree", validate_rooted_tree(fs))
ValidateHypershell == RunValidator("Hypershell", validate_hypershell(fs))
ValidateRootedHypershell == RunValidator("RootedHypershell", validate_rooted_hypershell(fs))
ValidateTests == RunValidator("Tests", validate_tests(fs))
ValidateExamples == RunValidator("Examples", validate_examples(fs))
ValidateDocumentation == RunValidator("Documentation", validate_documentation(fs))
ValidateIntegration == RunValidator("Integration", validate_integration(fs))

\* lines 292-318 and sys.exit(main())
MainSummary ==
    /\ pc = "summary"
    /\ out' = out \o summary_lines(results)
    /\ exitCode' = main_return(results)
    /\ pc' = "done"
    /\ UNCHANGED <<rootExists, fs, results, evald, calls>>
    /\ UNCHANGED matchVars

Next ==
    \/ Chdir
    \/ MainBanner
    \/ ValidateRootedTree
    \/ ValidateHypershell
    \/ ValidateRootedHypershell
    \/ ValidateTests
    \/ ValidateExamples
    \/ ValidateDocumentation
    \/ ValidateIntegration
    \/ MainSummary

Spec == Init /\ [][Next]_vars

Terminated == pc \in {"done", "crashed"}

(***************************************************************************)
(* Properties.                                                             *)
(***************************************************************************)
Rows(lines) == SelectSeq(lines, LAMBDA l : l.k = "row")
ItemsPrinted(lines) == SelectSeq(lines, LAMBDA l : l.k = "item")
VerdictsPrinted(lines) == SelectSeq(lines, LAMBDA l : l.k = "verdict")
ItemsOf(c) == SelectSeq(evald, LAMBDA it : it.c = c)
LinesOf(c) == SelectSeq(out, LAMBDA l : l.c = c /\ l.k \in {"header", "item"})
Called(c) == \E i \in 1..Len(calls) : calls[i] = c
Returned(c) == \E i \in 1..Len(results) : results[i].c = c
Passed(c) == \E i \in 1..Len(results) : results[i].c = c /\ results[i].passed

\* C1: at the end of main() the exit code is 0 exactly when all seven
\* verdicts are true and 1 otherwise, each component's row shows its own
\* verdict, and from an all-pass report, failing any one component alone gives
\* exit code 1 and changes no other component's row.
C1_ExitCodeIsConjunction ==
    pc = "done" =>
      /\ Len(results) = Len(Components)
      /\ exitCode \in {0, 1}
      /\ exitCode = 0 <=> \A i \in 1..Len(results) : results[i].passed
      /\ Rows(out) = [i \in 1..Len(results) |-> RowLine(Components[i], results[i].passed)]
      /\ exitCode = 0 =>
           \A i \in 1..Len(results) :
              LET flipped == [results EXCEPT ![i].passed = FALSE]
              IN  /\ main_return(flipped) = 1
                  /\ \A j \in 1..Len(results) :
                        j # i => Rows(summary_lines(flipped))[j] = Rows(out)[j]
                  /\ Rows(summary_lines(flipped))[i] = RowLine(Components[i], FALSE)

C1_Witness_AllPass == pc = "done" /\ exitCode = 0

\* C2: (the claim as stated) no run ends in an unhandled error: every run
\* ends with the seven summary rows printed and exit code 0 or 1.
C2_AlwaysFullReport ==
    Terminated =>
      /\ pc = "done"
      /\ Len(Rows(out)) = Len(Components)
      /\ exitCode \in {0, 1}

\* C3: (the claim as stated) the existence probe answers true exactly for
\* a readable regular file: false for a directory, an unreadable or a missing
\* path.
FileItemPath ==
    ("RootedTree module" :> TreePath) @@ ("Hypershell module" :> ShellPath)
    @@ ("RootedHypershell module" :> RhPath) @@ ("Test suite" :> TestPath)
    @@ ("Example file" :> ExamplePath) @@ ("Architecture documentation" :> DocPath)
    @@ ("README" :> ReadmePath) @@ ("init.lua" :> InitPath)
C3_ExistsIffRegularFile ==
    \A i \in 1..Len(evald) :
       evald[i].label \in DOMAIN FileItemPath =>
          (evald[i].ok <=> fs[FileItemPath[evald[i].label]].kind = "file")

\* C4: (the claim as stated) a validator returns false exactly when one
\* of the items it evaluated failed, the Documentation validator and its
\* three keyword items included.
C4_VerdictIffNoItemFailed ==
    \A i \in 1..Len(results) :
       results[i].passed <=>
          \A j \in 1..Len(evald) : evald[j].c = results[i].c => evald[j].ok

\* C5: (the claim as stated) every run invokes the seven validators, once
\* each, in the declared order, whatever happened to the ones before.
C5_EveryValidatorRunsOnce ==
    Terminated => calls = Components

\* C6: (the claim as stated) at the end of main() every evaluated item,
\* failed or passed, has its one result line, every component its one row and
\* the report its one verdict line.
C6_OneLinePerItem ==
    pc = "done" =>
      /\ ItemsPrinted(out) = ItemLines(evald)
      /\ Len(Rows(out)) = Len(Components)
      /\ Len(VerdictsPrinted(out)) = 1

\* Whether a text holds a torch.class( call, a local binding of the class
\* name, a table assigned to it.
HasTorchClassCall ==
    [cn \in AllContents |-> Contains(Chars("torch.class("), JoinLines(cn))]
HasLocalBinding ==
    [cn \in AllContents |-> Contains(Chars("local RootedHypershell"), JoinLines(cn))]
HasTableAssignment ==
    [cn \in AllContents |-> Contains(Chars("RootedHypershell = {}"), JoinLines(cn))]

\* The verdicts the validators give on a filesystem (FALSE for none).
VerdictOn(f, c) ==
    CASE c = "RootedTree" -> validate_rooted_tree(f).ret
      [] c = "Hypershell" -> validate_hypershell(f).ret
      [] c = "RootedHypershell" -> validate_rooted_hypershell(f).ret
      [] c = "Tests" -> validate_tests(f).ret
      [] c = "Examples" -> validate_examples(f).ret
      [] c = "Documentation" -> validate_documentation(f).ret
      [] c = "Integration" -> validate_integration(f).ret

\* C7: (the claim as stated) a rooted_hypershell.lua without any
\* torch.class( call makes the RootedHypershell component fail and the exit
\* code 1, whatever else it holds.
C7_NoTorchClassMeansFail ==
    ( /\ Called("RootedHypershell")
      /\ fs[RhPath].kind = "file"
      /\ ~HasTorchClassCall[fs[RhPath].content] )
    => /\ ~Passed("RootedHypershell")
       /\ Terminated => exitCode = 1

\* C7: (amended) a rooted_hypershell.lua holding neither a torch.class( call
\* nor a local binding of RootedHypershell nor a table assigned to it makes
\* the RootedHypershell component return false, every other component's
\* verdict is the one it gets with the registration present, and the exit
\* code is 1.
C7_NoClassMarkerMeansFail ==
    ( /\ Called("RootedHypershell")
      /\ fs[RhPath].kind = "file"
      /\ ~HasTorchClassCall[fs[RhPath].content]
      /\ ~HasLocalBinding[fs[RhPath].content]
      /\ ~HasTableAssignment[fs[RhPath].content] )
    => /\ Returned("RootedHypershell") /\ ~Passed("RootedHypershell")
       /\ \A i \in 1..Len(results) :
             results[i].c # "RootedHypershell" =>
                PyBool(results[i].passed)
                  = VerdictOn([fs EXCEPT ![RhPath] = File(RhFull)], results[i].c)
       /\ Terminated => exitCode = 1

C7_Witness_MethodsWithoutClass ==
    /\ pc = "done"
    /\ fs[RhPath] = File(RhNoClass)
    /\ \A c \in Range(Components) \ {"RootedHypershell"} : Passed(c)

\* C8: with rooted_tree.lua absent, validate_rooted_tree prints its header
\* and the existence failure, evaluates no construct item and no A000081
\* item, returns false, and the run ends with exit code 1.
C8_AbsentTreeShortCircuits ==
    ( Called("RootedTree") /\ fs[TreePath].kind = "absent" )
    => /\ ItemsOf("RootedTree") = << Item("RootedTree", "RootedTree module", FALSE) >>
       /\ LinesOf("RootedTree")
            = << HeaderLine("RootedTree"),
                 ItemLine(Item("RootedTree", "RootedTree module", FALSE)) >>
       /\ results[1] = [c |-> "RootedTree", passed |-> FALSE]
       /\ Terminated => exitCode = 1

C8_Witness_AbsentTreeOthersPass ==
    /\ pc = "done"
    /\ fs[TreePath].kind = "absent"
    /\ \A c \in Range(Components) \ {"RootedTree"} : Passed(c)

\* The construct names of the components that loop over constructs.
ConstructsOf(c) ==
    CASE c = "RootedTree" -> TreeFunctions
      [] c = "Hypershell" -> ShellFunctions
      [] c = "RootedHypershell" -> RhFunctions
      [] c = "Tests" -> TestFunctions
ConstructComponents == { "RootedTree", "Hypershell", "RootedHypershell", "Tests" }
ArtifactFound(c) == \E i \in 1..Len(evald) :
    evald[i].c = c /\ evald[i].label \in DOMAIN FileItemPath /\ evald[i].ok
\* the function items evaluated for c, in order
FunctionItemsOf(c) ==
    SelectSeq(ItemsOf(c), LAMBDA it : it.label \in Range(ConstructsOf(c)))
FunctionLinesOf(c) ==
    SelectSeq(LinesOf(c), LAMBDA l : l.k = "item" /\ l.label \in Range(ConstructsOf(c)))
AllConstructsEvaluated(c) ==
    /\ [i \in 1..Len(FunctionItemsOf(c)) |-> FunctionItemsOf(c)[i].label] = ConstructsOf(c)
    /\ FunctionLinesOf(c) = ItemLines(FunctionItemsOf(c))
ConstructFailed(c) ==
    \E i \in 1..Len(ItemsOf(c)) :
       /\ ~ItemsOf(c)[i].ok
       /\ ItemsOf(c)[i].label \notin DOMAIN FileItemPath

\* C10: (the claim as stated) in a component whose artifact exists and
\* whose validator has returned, every construct item has been evaluated and
\* reported whatever failed before it, the class-definition item of
\* RootedHypershell included, and a failed construct makes the verdict false.
C10_FailedConstructNeverStops ==
    \A c \in ConstructComponents :
       (Called(c) /\ ArtifactFound(c) /\ Returned(c)) =>
          /\ AllConstructsEvaluated(c)
          /\ ConstructFailed(c) => ~Passed(c)

(***************************************************************************)
(* The matcher on its own: a text is put together from a few fragments,    *)
(* then check_function_exists' search runs on it for one construct name.   *)
(***************************************************************************)
MaxPieces == 4

Pieces ==
    { "function ", "local ", "RootedTree", "new", "addChild",
      ".", "_", ":", " = function", "\n" }

MatchNames == { "RootedTree.new", "addChild" }

PiecesText(ps) == Concat([i \in 1..Len(ps) |-> Chars(ps[i])])

InitMatch ==
    /\ mtext = <<>>
    /\ mname \in MatchNames
    /\ mres = "unset"
    /\ rootExists = FALSE
    /\ fs = [p \in Paths |-> Absent]
    /\ pc = "idle"
    /\ results = <<>>
    /\ out = <<>>
    /\ evald = <<>>
    /\ calls = <<>>
    /\ exitCode = -1

AppendPiece(p) ==
    /\ mres = "unset"
    /\ Len(mtext) < MaxPieces
    /\ mtext' = Append(mtext, p)
    /\ UNCHANGED <<mname, mres>>
    /\ UNCHANGED mainVars

RunMatch ==
    /\ mres = "unset"
    /\ mres' = IF search_patterns(PiecesText(mtext), Chars(mname))
               THEN "True" ELSE "False"
    /\ UNCHANGED <<mtext, mname>>
    /\ UNCHANGED mainVars

NextMatch ==
    \/ \E p \in Pieces : AppendPiece(p)
    \/ RunMatch

SpecMatch == InitMatch /\ [][NextMatch]_vars

\* C9: (the claim as stated) a true result implies that the construct name
\* occurs in the text, for every name including the dotted ones.
C9_NameAbsentMeansFalse ==
    mres = "True" => Contains(Chars(mname), PiecesText(mtext))

====
